---------------------------- MODULE Spec2Model ----------------------------
(* Model of the FastAPI testing-learning backend (src/main.py) with its    *)
(* extensions router (src/api_extensions.py): the users, test_results and   *)
(* user_achievements tables, the register / login / submit_task /           *)
(* achievements-check / profile-update handlers, the token-protected reads, *)
(* the health check, task evaluation and the level formula.                 *)
(*                                                                          *)
(* A request works on its own SQLAlchemy session (autocommit=False,         *)
(* autoflush=False, src/main.py:46): the user row is read once by           *)
(* get_current_user, attribute changes and added rows stay in the session   *)
(* and reach the database only at db.commit(), which writes the changed     *)
(* attributes as absolute values.                                           *)
EXTENDS Integers, Sequences, FiniteSets, Bags, TLC

VARIABLES
    users,              \* table users: sequence of rows, id = index
    test_results,       \* table test_results: bag of rows (row id left out)
    user_achievements,  \* table user_achievements: bag of rows (row id left out)
    tasks,              \* table test_tasks: sequence of rows, id = index
    achievements,       \* table achievements (catalog): id -> points
    tokens,             \* bearer tokens handed out, each with the id of the
                        \* user it was handed to
    sessions,           \* one SQLAlchemy session per request in flight
    response,           \* the last HTTP exchange: the response sent and, for
                        \* a profile update, the parameters it answered
    probe               \* argument/result pair of a pure function under check

vars == <<users, test_results, user_achievements, tasks, achievements,
          tokens, sessions, response, probe>>

-----------------------------------------------------------------------------
(* Bounds of the model: stored users, stored test results, the half-width  *)
(* of the experience windows given to calculate_level, the largest task     *)
(* points given to evaluate_task                                            *)

MaxUsers == 2
MaxResults == 2
MaxLevelProbe == 110
MaxPoints == 7

(* Program constants *)

XpPerLevel == 100
LevelCap == 100
PassNum == 7
PassDen == 10
FastLimit == 30
CategoryQuota == 5
PersistAttempt == 3
DefaultAttempts == 1
DefaultTimeSpent == 0
NumRules == 8

Usernames == {"u1", "u2"}
Emails == {"e1", "e2"}
Passwords == {"p1", "p2"}
TimeSpents == {30, 31}
Slots == {1, 2}

Min(a, b) == IF a <= b THEN a ELSE b

-----------------------------------------------------------------------------
(* JSON texts and Python values.                                            *)
(* A stored JSON text is a sequence of tokens.  A decoded value is a        *)
(* record [type, items]: a dict holds its (key, value) pairs, a scalar      *)
(* holds the single pair ("", atom).  Python's == on dicts compares the     *)
(* sets of pairs, whatever the order of the keys in the text.               *)

JsonKeys == {"test_cases", "expected_behavior"}
JsonAtoms == {"cases1", "cases2", "behavior3", "other"}

PyDict(pairs) == [type |-> "dict", items |-> pairs]
PyScalar(a) == [type |-> "scalar", items |-> {<<"", a>>}]

JsonError == [ok |-> FALSE, value |-> PyDict({})]
JsonOk(v) == [ok |-> TRUE, value |-> v]

RECURSIVE ParsePairs(_, _)
ParsePairs(toks, acc) ==
    IF Len(toks) < 3 THEN JsonError
    ELSE IF toks[1] \notin JsonKeys \/ toks[2] # ":" \/ toks[3] \notin JsonAtoms
         THEN JsonError
    ELSE LET acc2 == {p \in acc : p[1] # toks[1]} \cup {<<toks[1], toks[3]>>}
         IN  IF Len(toks) = 3 THEN JsonOk(PyDict(acc2))
             ELSE IF toks[4] = "," THEN ParsePairs(SubSeq(toks, 5, Len(toks)), acc2)
             ELSE JsonError

\* json.loads: a scalar, an object of key:atom pairs (a repeated key keeps
\* its last value), or a JSONDecodeError.
JsonLoads(text) ==
    IF Len(text) = 0 THEN JsonError
    ELSE IF Len(text) = 1
         THEN IF text[1] \in JsonAtoms THEN JsonOk(PyScalar(text[1])) ELSE JsonError
    ELSE IF text[1] = "{" /\ text[Len(text)] = "}"
         THEN IF Len(text) = 2 THEN JsonOk(PyDict({}))
              ELSE ParsePairs(SubSeq(text, 2, Len(text) - 1), {})
    ELSE JsonError

-----------------------------------------------------------------------------
(* evaluate_task and calculate_level *)

\* expected = json.loads(task.expected_result) if task.expected_result else {}
DecodeExpected(text) ==
    IF Len(text) = 0 THEN JsonOk(PyDict({})) ELSE JsonLoads(text)

\* mutant: a stored text that cannot be decoded scores like a wrong answer
evaluate_task_HalfOnError(task, user_answer) ==
    LET expected == DecodeExpected(task.expected_result)
    IN  IF ~expected.ok THEN [score |-> task.points \div 2, feedback |-> "error"]
        ELSE IF user_answer = expected.value
             THEN [score |-> task.points, feedback |-> "correct"]
        ELSE [score |-> task.points \div 2, feedback |-> "partial"]

\* mutant: the half score rounded up instead of down
evaluate_task_RoundUp(task, user_answer) ==
    LET expected == DecodeExpected(task.expected_result)
    IN  IF ~expected.ok THEN [score |-> 0, feedback |-> "error"]
        ELSE IF user_answer = expected.value
             THEN [score |-> task.points, feedback |-> "correct"]
        ELSE [score |-> (task.points + 1) \div 2, feedback |-> "partial"]

evaluate_task(task, user_answer) ==
    LET expected == DecodeExpected(task.expected_result)
    IN  IF ~expected.ok THEN [score |-> 0, feedback |-> "error"]
        ELSE IF user_answer = expected.value
             THEN [score |-> task.points, feedback |-> "correct"]
        ELSE [score |-> task.points \div 2, feedback |-> "partial"]

\* mutant: the cap left out
calculate_level_NoCap(experience) == experience \div XpPerLevel + 1

calculate_level(experience) == Min(experience \div XpPerLevel + 1, LevelCap)

\* mutant: half of the points is enough to pass
PassedFlag_Half(score, points) == 2 * score >= points

\* passed = score >= task.points * 0.7
PassedFlag(score, points) == PassDen * score >= PassNum * points

-----------------------------------------------------------------------------
(* Seed data written by init_db, passwords and tokens *)

SeedTasks ==
    << [category |-> "functional", points |-> 20,
        expected_result |-> <<"{", "test_cases", ":", "cases1", "}">>],
       [category |-> "api", points |-> 30,
        expected_result |-> <<"{", "test_cases", ":", "cases2", "}">>],
       [category |-> "security", points |-> 50,
        expected_result |-> <<"{", "expected_behavior", ":", "behavior3", "}">>] >>

\* achievements.points by id, in insertion order
SeedAchievements == <<10, 50, 50, 50, 50, 25, 30, 20>>

\* mutant: no password verifies
verify_password_Never(plain_password, hashed_password) == FALSE

\* mutant: any password verifies
verify_password_Any(plain_password, hashed_password) == TRUE

\* pwd_context.hash / pwd_context.verify
get_password_hash(password) == <<"bcrypt", password>>
verify_password(plain_password, hashed_password) ==
    hashed_password = get_password_hash(plain_password)

\* jwt.encode of {"sub": username, "exp": ...}
create_access_token(username) == [sub |-> username]
NoToken == [sub |-> ""]

\* the token as the client of user uid keeps it
HandOut(token, uid) == [sub |-> token.sub, holder |-> uid]

-----------------------------------------------------------------------------
(* Queries *)

UserIds(us) == DOMAIN us

\* mutant: the username lookup finds nothing
UserByUsername_NotFound(us, name) == 0

\* db.query(User).filter(User.username == name).first(): the row's id, 0 for None
UserByUsername(us, name) ==
    IF \E i \in UserIds(us) : us[i].username = name
    THEN CHOOSE i \in UserIds(us) :
            /\ us[i].username = name
            /\ \A j \in UserIds(us) : us[j].username = name => i <= j
    ELSE 0

\* mutant: the email lookup finds nothing
UserByEmail_NotFound(us, mail) == 0

UserByEmail(us, mail) ==
    IF \E i \in UserIds(us) : us[i].email = mail
    THEN CHOOSE i \in UserIds(us) :
            /\ us[i].email = mail
            /\ \A j \in UserIds(us) : us[j].email = mail => i <= j
    ELSE 0

\* jwt.decode, payload.get("sub"), then the user row of that username
get_current_user(token, us) ==
    IF token.sub = "" THEN 0 ELSE UserByUsername(us, token.sub)

\* Query.count(): the number of rows of bag B among the rows of set S
CountRows(B, S) == BagCardinality([r \in S \cap DOMAIN B |-> B[r]])

\* the eight conditions of achievements_to_check, by rule id
RuleCategory(k) ==
    CASE k = 2 -> "functional" [] k = 3 -> "ui" [] k = 4 -> "api" [] OTHER -> "security"

\* mutant: the fast rule asks for less than the limit
RuleCondition_StrictFast(k, uid, results, tks) ==
    LET mine == {r \in DOMAIN results : r.user_id = uid /\ r.passed}
        inCategory == {r \in mine : /\ r.task_id \in DOMAIN tks
                                    /\ tks[r.task_id].category = RuleCategory(k)}
        fast == {r \in mine : r.time_spent < FastLimit}
        perfect == {r \in mine : r.score = r.max_score}
        third == {r \in mine : r.attempts = PersistAttempt}
    IN  CASE k = 1 -> CountRows(results, mine) >= 1
          [] k \in 2..5 -> CountRows(results, inCategory) >= CategoryQuota
          [] k = 6 -> CountRows(results, fast) >= 1
          [] k = 7 -> CountRows(results, perfect) >= 1
          [] OTHER -> CountRows(results, third) >= 1

\* mutant: the category rules count the passed rows of every category
RuleCondition_AnyCategory(k, uid, results, tks) ==
    LET mine == {r \in DOMAIN results : r.user_id = uid /\ r.passed}
        fast == {r \in mine : r.time_spent <= FastLimit}
        perfect == {r \in mine : r.score = r.max_score}
        third == {r \in mine : r.attempts = PersistAttempt}
    IN  CASE k = 1 -> CountRows(results, mine) >= 1
          [] k \in 2..5 -> CountRows(results, mine) >= CategoryQuota
          [] k = 6 -> CountRows(results, fast) >= 1
          [] k = 7 -> CountRows(results, perfect) >= 1
          [] OTHER -> CountRows(results, third) >= 1

RuleCondition(k, uid, results, tks) ==
    LET mine == {r \in DOMAIN results : r.user_id = uid /\ r.passed}
        inCategory == {r \in mine : /\ r.task_id \in DOMAIN tks
                                    /\ tks[r.task_id].category = RuleCategory(k)}
        fast == {r \in mine : r.time_spent <= FastLimit}
        perfect == {r \in mine : r.score = r.max_score}
        third == {r \in mine : r.attempts = PersistAttempt}
    IN  CASE k = 1 -> CountRows(results, mine) >= 1
          [] k \in 2..5 -> CountRows(results, inCategory) >= CategoryQuota
          [] k = 6 -> CountRows(results, fast) >= 1
          [] k = 7 -> CountRows(results, perfect) >= 1
          [] OTHER -> CountRows(results, third) >= 1

\* mutant: the existence check finds nothing
ExistingAward_Never(awards, uid, k) == FALSE

\* db.query(UserAchievement).filter_by(user_id, achievement_id).first() is not None
ExistingAward(awards, uid, k) ==
    BagIn([user_id |-> uid, achievement_id |-> k], awards)

-----------------------------------------------------------------------------
(* Sessions *)

UserAttrs(row) ==
    [experience |-> row.experience, total_score |-> row.total_score,
     level |-> row.level]

IdleSession ==
    [kind |-> "idle", user_id |-> 0,
     loaded |-> [experience |-> 0, total_score |-> 0, level |-> 0],
     cur |-> [experience |-> 0, total_score |-> 0, level |-> 0],
     new_results |-> <<>>, new_awards |-> <<>>, new_achievements |-> <<>>,
     rule |-> 0, score |-> 0, passed |-> FALSE]

\* the session of a request whose get_current_user returned row uid
OpenSession(kind, uid, us) ==
    [IdleSession EXCEPT !.kind = kind, !.user_id = uid,
                        !.loaded = UserAttrs(us[uid]), !.cur = UserAttrs(us[uid]),
                        !.rule = 1]

\* submit_task from evaluate_task to just before db.commit()
SubmitBody(s, task_id, task, answer, time_spent) ==
    LET ev == evaluate_task(task, answer)
        passed == PassedFlag(ev.score, task.points)
        row == [user_id |-> s.user_id, task_id |-> task_id, score |-> ev.score,
                max_score |-> task.points, passed |-> passed,
                attempts |-> DefaultAttempts, time_spent |-> time_spent]
        experience == s.cur.experience + ev.score
        new_level == calculate_level(experience)
        cur == IF passed
               THEN [experience |-> experience,
                     total_score |-> s.cur.total_score + ev.score,
                     level |-> IF new_level > s.cur.level THEN new_level
                               ELSE s.cur.level]
               ELSE s.cur
    IN  [s EXCEPT !.new_results = Append(@, row), !.cur = cur,
                  !.score = ev.score, !.passed = passed]

\* mutant: the points of an award go to the experience only
CheckRule_NoScore(s, k, results, awards, tks, catalog) ==
    IF ~ExistingAward(awards, s.user_id, k) /\ RuleCondition(k, s.user_id, results, tks)
    THEN IF k \in DOMAIN catalog
         THEN [s EXCEPT !.new_awards = Append(@, k),
                        !.new_achievements = Append(@, k),
                        !.cur.experience = @ + catalog[k],
                        !.rule = k + 1]
         ELSE [s EXCEPT !.new_awards = Append(@, k), !.rule = k + 1]
    ELSE [s EXCEPT !.rule = k + 1]

\* one pass of the loop of check_achievements, for rule k
CheckRule(s, k, results, awards, tks, catalog) ==
    IF ~ExistingAward(awards, s.user_id, k) /\ RuleCondition(k, s.user_id, results, tks)
    THEN IF k \in DOMAIN catalog
         THEN [s EXCEPT !.new_awards = Append(@, k),
                        !.new_achievements = Append(@, k),
                        !.cur.experience = @ + catalog[k],
                        !.cur.total_score = @ + catalog[k],
                        !.rule = k + 1]
         ELSE [s EXCEPT !.new_awards = Append(@, k), !.rule = k + 1]
    ELSE [s EXCEPT !.rule = k + 1]

\* mutant: the loop ends at its first award
RECURSIVE CheckLoop_StopAtFirst(_, _, _, _, _)
CheckLoop_StopAtFirst(s, results, awards, tks, catalog) ==
    IF s.rule > NumRules \/ Len(s.new_awards) > 0 THEN s
    ELSE CheckLoop_StopAtFirst(CheckRule(s, s.rule, results, awards, tks, catalog),
                               results, awards, tks, catalog)

\* the rest of the loop, run without any other request in between
RECURSIVE CheckLoop(_, _, _, _, _)
CheckLoop(s, results, awards, tks, catalog) ==
    IF s.rule > NumRules THEN s
    ELSE CheckLoop(CheckRule(s, s.rule, results, awards, tks, catalog),
                   results, awards, tks, catalog)

\* mutant: the commit adds the session's increments to the stored values
CommitUser_Increment(us, s) ==
    [us EXCEPT ![s.user_id] =
        [@ EXCEPT !.experience = @ + (s.cur.experience - s.loaded.experience),
                  !.total_score = @ + (s.cur.total_score - s.loaded.total_score),
                  !.level = IF s.cur.level # s.loaded.level
                            THEN s.cur.level ELSE @]]

\* db.commit(): UPDATE users SET <the changed attributes> WHERE id = user_id
CommitUser(us, s) ==
    [us EXCEPT ![s.user_id] =
        [@ EXCEPT !.experience = IF s.cur.experience # s.loaded.experience
                                 THEN s.cur.experience ELSE @,
                  !.total_score = IF s.cur.total_score # s.loaded.total_score
                                  THEN s.cur.total_score ELSE @,
                  !.level = IF s.cur.level # s.loaded.level
                            THEN s.cur.level ELSE @]]

\* db.commit(): INSERT the rows added to the session
SeqBag(rows) ==
    [r \in {rows[i] : i \in DOMAIN rows} |->
        Cardinality({i \in DOMAIN rows : rows[i] = r})]

CommitResults(results, s) == results (+) SeqBag(s.new_results)

AwardRows(s) ==
    [i \in DOMAIN s.new_awards |->
        [user_id |-> s.user_id, achievement_id |-> s.new_awards[i]]]

CommitAwards(awards, s) == awards (+) SeqBag(AwardRows(s))

-----------------------------------------------------------------------------
(* Responses *)

Resp(op, status) ==
    [op |-> op, status |-> status, detail |-> "", access_token |-> NoToken,
     token_type |-> "", new_achievements |-> <<>>, score |-> 0, passed |-> FALSE,
     user_id |-> 0, username |-> "", email |-> "",
     req_username |-> "", req_email |-> ""]

NoProbe == [fn |-> "none"]

-----------------------------------------------------------------------------
(* The service after startup: init_db has seeded tasks and achievements *)

Init ==
    /\ users = <<>>
    /\ test_results = EmptyBag
    /\ user_achievements = EmptyBag
    /\ tasks = SeedTasks
    /\ achievements = SeedAchievements
    /\ tokens = {}
    /\ sessions = [sl \in Slots |-> IdleSession]
    /\ response = Resp("none", 0)
    /\ probe = NoProbe

Static == UNCHANGED <<tasks, achievements, probe>>
DbUnchanged == UNCHANGED <<users, test_results, user_achievements>>

\* rows already stored or waiting in a session: the bound on test_results
RowsInUse ==
    BagCardinality(test_results)
        + Cardinality({sl \in Slots : Len(sessions[sl].new_results) > 0})

-----------------------------------------------------------------------------
(* Requests served one at a time: each handler runs from its dependencies   *)
(* to its commit with no other request in between.                          *)

\* POST /api/auth/register
Register(username, email, password) ==
    /\ \A sl \in Slots : sessions[sl].kind = "idle"
    /\ IF UserByUsername(users, username) # 0
       THEN /\ response' = [Resp("register", 400) EXCEPT !.detail = "username exists"]
            /\ UNCHANGED <<users, tokens>>
       ELSE IF UserByEmail(users, email) # 0
       THEN /\ response' = [Resp("register", 400) EXCEPT !.detail = "email exists"]
            /\ UNCHANGED <<users, tokens>>
       ELSE /\ Len(users) < MaxUsers
            /\ users' = Append(users,
                   [username |-> username, email |-> email,
                    password_hash |-> get_password_hash(password),
                    level |-> 1, experience |-> 0, total_score |-> 0])
            /\ tokens' = tokens \cup {HandOut(create_access_token(username),
                                                Len(users) + 1)}
            /\ response' = [Resp("register", 200) EXCEPT
                               !.access_token = create_access_token(username),
                               !.token_type = "bearer"]
    /\ UNCHANGED <<test_results, user_achievements, sessions>>
    /\ Static

\* POST /api/auth/login
Login(username, password) ==
    /\ \A sl \in Slots : sessions[sl].kind = "idle"
    /\ LET uid == UserByUsername(users, username)
       IN  IF uid = 0 \/ ~verify_password(password, users[uid].password_hash)
           THEN /\ response' = Resp("login", 401)
                /\ UNCHANGED tokens
           ELSE /\ tokens' = tokens \cup
                       {HandOut(create_access_token(users[uid].username), uid)}
                /\ response' = [Resp("login", 200) EXCEPT
                       !.access_token = create_access_token(users[uid].username),
                       !.token_type = "bearer"]
    /\ DbUnchanged
    /\ UNCHANGED sessions
    /\ Static

\* mutant: the result row is written before the task is looked up
SubmitTaskUpTo_NoLookup(limit, token, task_id, answer, time_spent) ==
    /\ \A sl \in Slots : sessions[sl].kind = "idle"
    /\ LET uid == get_current_user(token, users)
       IN  IF uid = 0
           THEN /\ response' = Resp("submit", 401)
                /\ DbUnchanged
           ELSE IF task_id \notin DOMAIN tasks
           THEN /\ RowsInUse < limit
                /\ response' = Resp("submit", 404)
                /\ test_results' = test_results (+) SetToBag(
                       {[user_id |-> uid, task_id |-> task_id, score |-> 0,
                         max_score |-> 0, passed |-> FALSE,
                         attempts |-> DefaultAttempts, time_spent |-> time_spent]})
                /\ UNCHANGED <<users, user_achievements>>
           ELSE LET s == SubmitBody(OpenSession("submit", uid, users), task_id,
                                    tasks[task_id], answer, time_spent)
                IN  /\ RowsInUse < limit
                    /\ users' = CommitUser(users, s)
                    /\ test_results' = CommitResults(test_results, s)
                    /\ UNCHANGED user_achievements
                    /\ response' = [Resp("submit", 200) EXCEPT
                                       !.score = s.score, !.passed = s.passed]
    /\ UNCHANGED <<tokens, sessions>>
    /\ Static

\* POST /api/tasks/{task_id}/submit, while fewer than limit rows are stored
SubmitTaskUpTo(limit, token, task_id, answer, time_spent) ==
    /\ \A sl \in Slots : sessions[sl].kind = "idle"
    /\ LET uid == get_current_user(token, users)
       IN  IF uid = 0
           THEN /\ response' = Resp("submit", 401)
                /\ DbUnchanged
           ELSE IF task_id \notin DOMAIN tasks
           THEN /\ response' = Resp("submit", 404)
                /\ DbUnchanged
           ELSE LET s == SubmitBody(OpenSession("submit", uid, users), task_id,
                                    tasks[task_id], answer, time_spent)
                IN  /\ RowsInUse < limit
                    /\ users' = CommitUser(users, s)
                    /\ test_results' = CommitResults(test_results, s)
                    /\ UNCHANGED user_achievements
                    /\ response' = [Resp("submit", 200) EXCEPT
                                       !.score = s.score, !.passed = s.passed]
    /\ UNCHANGED <<tokens, sessions>>
    /\ Static

SubmitTask(token, task_id, answer, time_spent) ==
    SubmitTaskUpTo(MaxResults, token, task_id, answer, time_spent)

\* POST /api/achievements/check
CheckAchievements(token) ==
    /\ \A sl \in Slots : sessions[sl].kind = "idle"
    /\ LET uid == get_current_user(token, users)
       IN  IF uid = 0
           THEN /\ response' = Resp("check", 401)
                /\ DbUnchanged
           ELSE LET s == CheckLoop(OpenSession("check", uid, users), test_results,
                                   user_achievements, tasks, achievements)
                IN  /\ users' = CommitUser(users, s)
                    /\ user_achievements' = CommitAwards(user_achievements, s)
                    /\ UNCHANGED test_results
                    /\ response' = [Resp("check", 200) EXCEPT
                                       !.new_achievements = s.new_achievements]
    /\ UNCHANGED <<tokens, sessions>>
    /\ Static

\* requests of the gameplay runs: two accounts, the 20- and the 50-point task
\* and a task id with no row, each with its expected answer and with another
GameAccounts == {<<"u1", "e1", "p1">>, <<"u2", "e2", "p1">>}
GameSubmits ==
    { <<1, PyDict({<<"test_cases", "cases1">>})>>, <<1, PyDict({})>>,
      <<3, PyDict({<<"expected_behavior", "behavior3">>})>>, <<3, PyDict({})>>,
      <<4, PyDict({})>> }

Next ==
    \/ \E acc \in GameAccounts : Register(acc[1], acc[2], acc[3])
    \/ \E t \in tokens, sub \in GameSubmits, ts \in TimeSpents :
           SubmitTask(t, sub[1], sub[2], ts)
    \/ \E t \in tokens : CheckAchievements(t)

Spec == Init /\ [][Next]_vars

\* registration and login alone, with every combination of name, email and password
NextAuth ==
    \/ \E u \in Usernames, e \in Emails, p \in Passwords : Register(u, e, p)
    \/ \E u \in Usernames, p \in Passwords : Login(u, p)

SpecAuth == Init /\ [][NextAuth]_vars

-----------------------------------------------------------------------------
(* Requests that overlap: each request in flight holds a session; its       *)
(* queries read what is committed when they run, and its writes reach the   *)
(* tables at its commit.                                                    *)

\* submit_task: get_current_user, then the handler up to db.commit()
BeginSubmit(sl, token, task_id, answer, time_spent) ==
    /\ sessions[sl].kind = "idle"
    /\ LET uid == get_current_user(token, users)
       IN  IF uid = 0
           THEN /\ response' = Resp("submit", 401)
                /\ UNCHANGED sessions
           ELSE IF task_id \notin DOMAIN tasks
           THEN /\ response' = Resp("submit", 404)
                /\ UNCHANGED sessions
           ELSE /\ RowsInUse < MaxResults
                /\ sessions' = [sessions EXCEPT ![sl] =
                       SubmitBody(OpenSession("submit", uid, users), task_id,
                                  tasks[task_id], answer, time_spent)]
                /\ UNCHANGED response
    /\ DbUnchanged
    /\ UNCHANGED tokens
    /\ Static

\* check_achievements: get_current_user
BeginCheck(sl, token) ==
    /\ sessions[sl].kind = "idle"
    /\ LET uid == get_current_user(token, users)
       IN  IF uid = 0
           THEN /\ response' = Resp("check", 401)
                /\ UNCHANGED sessions
           ELSE /\ sessions' = [sessions EXCEPT ![sl] =
                                   OpenSession("check", uid, users)]
                /\ UNCHANGED response
    /\ DbUnchanged
    /\ UNCHANGED tokens
    /\ Static

\* check_achievements: one pass of the loop
StepCheck(sl) ==
    /\ sessions[sl].kind = "check"
    /\ sessions[sl].rule <= NumRules
    /\ sessions' = [sessions EXCEPT ![sl] =
           CheckRule(sessions[sl], sessions[sl].rule, test_results,
                     user_achievements, tasks, achievements)]
    /\ DbUnchanged
    /\ UNCHANGED <<tokens, response>>
    /\ Static

\* db.commit() and the response
CommitSession(sl) ==
    /\ \/ sessions[sl].kind = "submit"
       \/ sessions[sl].kind = "check" /\ sessions[sl].rule > NumRules
    /\ users' = CommitUser(users, sessions[sl])
    /\ test_results' = CommitResults(test_results, sessions[sl])
    /\ user_achievements' = CommitAwards(user_achievements, sessions[sl])
    /\ response' = [Resp(sessions[sl].kind, 200) EXCEPT
                       !.new_achievements = sessions[sl].new_achievements,
                       !.score = sessions[sl].score,
                       !.passed = sessions[sl].passed]
    /\ sessions' = [sessions EXCEPT ![sl] = IdleSession]
    /\ UNCHANGED tokens
    /\ Static

\* mutant: what the session has collected is written although the request
\* is interrupted, as if every award were committed when it is added
AbortSession_Persist(sl) ==
    /\ sessions[sl].kind # "idle"
    /\ response' = Resp(sessions[sl].kind, 500)
    /\ users' = CommitUser(users, sessions[sl])
    /\ test_results' = CommitResults(test_results, sessions[sl])
    /\ user_achievements' = CommitAwards(user_achievements, sessions[sl])
    /\ sessions' = [sessions EXCEPT ![sl] = IdleSession]
    /\ UNCHANGED tokens
    /\ Static

\* the request is interrupted before db.commit(): get_db closes the session,
\* which rolls back
AbortSession(sl) ==
    /\ sessions[sl].kind # "idle"
    /\ response' = Resp(sessions[sl].kind, 500)
    /\ sessions' = [sessions EXCEPT ![sl] = IdleSession]
    /\ DbUnchanged
    /\ UNCHANGED tokens
    /\ Static

\* requests of the overlapping runs: one account, the expected answer of the
\* 50-point task
RaceAccount == <<"u1", "e1", "p1">>
RaceSubmits ==
    { <<3, PyDict({<<"expected_behavior", "behavior3">>})>> }
RaceTimes == {30}

NextRace ==
    \/ Register(RaceAccount[1], RaceAccount[2], RaceAccount[3])
    \/ \E sl \in Slots, t \in tokens, sub \in RaceSubmits, ts \in RaceTimes :
           BeginSubmit(sl, t, sub[1], sub[2], ts)
    \/ \E sl \in Slots, t \in tokens : BeginCheck(sl, t)
    \/ \E sl \in Slots : StepCheck(sl)
    \/ \E sl \in Slots : CommitSession(sl)
    \/ \E sl \in Slots : AbortSession(sl)

SpecRace == Init /\ [][NextRace]_vars

-----------------------------------------------------------------------------
(* Accounts: registration, login, the token-protected reads and the profile *)
(* update of the extensions router.  A client presents whatever it likes in *)
(* the Authorization header: nothing, a token it was handed (possibly past  *)
(* its expiry), a token with a wrong signature, a token without subject.    *)

NewUsernames == Usernames \cup {"u3"}
NewEmails == Emails \cup {"e3"}

NoCredentials ==
    [header |-> "none", token |-> HandOut(NoToken, 0), signed |-> FALSE,
     expired |-> FALSE]

Credentials(toks) ==
    {NoCredentials} \cup
    { [header |-> "bearer", token |-> t, signed |-> sg, expired |-> ex] :
          t \in toks \cup {HandOut(NoToken, 0)}, sg \in BOOLEAN, ex \in BOOLEAN }

\* mutant: the expiry of the token is not looked at
Authenticated_IgnoreExpiry(cred, us) ==
    IF cred.header # "bearer" THEN 0
    ELSE IF ~cred.signed THEN 0
    ELSE get_current_user(cred.token, us)

\* Depends(security), then get_current_user: jwt.decode raises JWTError for a
\* wrong signature and for an expired token; 0 stands for the 401
Authenticated(cred, us) ==
    IF cred.header # "bearer" THEN 0
    ELSE IF ~cred.signed \/ cred.expired THEN 0
    ELSE get_current_user(cred.token, us)

\* mutant: the new username is written before the email is checked
ProfileOutcome_EagerCommit(us, uid, username, email) ==
    LET rename == username # "" /\ username # us[uid].username
        renamed == IF rename THEN [us[uid] EXCEPT !.username = username]
                   ELSE us[uid]
        readdress == email # "" /\ email # renamed.email
    IN  IF rename /\ UserByUsername(us, username) # 0
        THEN [status |-> 400, detail |-> "username exists", users |-> us]
        ELSE IF readdress /\ UserByEmail(us, email) # 0
        THEN [status |-> 400, detail |-> "email exists",
              users |-> [us EXCEPT ![uid] = renamed]]
        ELSE [status |-> 200, detail |-> "",
              users |-> [us EXCEPT ![uid] =
                            IF readdress THEN [renamed EXCEPT !.email = email]
                            ELSE renamed]]

\* update_user_profile after get_current_user: the attributes are set on the
\* session's current_user, the two uniqueness queries read the table, and
\* the table is written by the db.commit() at the end only
ProfileOutcome(us, uid, username, email) ==
    LET rename == username # "" /\ username # us[uid].username
        renamed == IF rename THEN [us[uid] EXCEPT !.username = username]
                   ELSE us[uid]
        readdress == email # "" /\ email # renamed.email
    IN  IF rename /\ UserByUsername(us, username) # 0
        THEN [status |-> 400, detail |-> "username exists", users |-> us]
        ELSE IF readdress /\ UserByEmail(us, email) # 0
        THEN [status |-> 400, detail |-> "email exists", users |-> us]
        ELSE [status |-> 200, detail |-> "",
              users |-> [us EXCEPT ![uid] =
                            IF readdress THEN [renamed EXCEPT !.email = email]
                            ELSE renamed]]

\* PUT /api/user/profile; "" stands for a parameter left out
UpdateProfile(cred, username, email) ==
    /\ \A sl \in Slots : sessions[sl].kind = "idle"
    /\ LET uid == Authenticated(cred, users)
       IN  IF uid = 0
           THEN /\ response' = [Resp("profile", 401) EXCEPT
                                   !.req_username = username, !.req_email = email]
                /\ UNCHANGED users
           ELSE LET out == ProfileOutcome(users, uid, username, email)
                IN  /\ users' = out.users
                    /\ response' = [Resp("profile", out.status) EXCEPT
                           !.detail = out.detail,
                           !.user_id = IF out.status = 200 THEN uid ELSE 0,
                           !.username = IF out.status = 200
                                        THEN out.users[uid].username ELSE "",
                           !.email = IF out.status = 200
                                     THEN out.users[uid].email ELSE "",
                           !.req_username = username, !.req_email = email]
    /\ UNCHANGED <<test_results, user_achievements, tokens, sessions>>
    /\ Static

\* GET /api/auth/me
GetCurrentUserInfo(cred) ==
    /\ \A sl \in Slots : sessions[sl].kind = "idle"
    /\ LET uid == Authenticated(cred, users)
       IN  IF uid = 0
           THEN response' = Resp("me", 401)
           ELSE response' = [Resp("me", 200) EXCEPT
                                !.user_id = uid,
                                !.username = users[uid].username,
                                !.email = users[uid].email]
    /\ DbUnchanged
    /\ UNCHANGED <<tokens, sessions>>
    /\ Static

\* GET /api/tasks
GetTasks(cred) ==
    /\ \A sl \in Slots : sessions[sl].kind = "idle"
    /\ LET uid == Authenticated(cred, users)
       IN  IF uid = 0
           THEN response' = Resp("tasks", 401)
           ELSE response' = Resp("tasks", 200)
    /\ DbUnchanged
    /\ UNCHANGED <<tokens, sessions>>
    /\ Static

\* mutant: the health check reports on the users table
HealthCheck_NeedsUsers ==
    /\ response' = [Resp("health", 200) EXCEPT
                       !.detail = IF Len(users) > 0 THEN "healthy" ELSE "empty"]
    /\ DbUnchanged
    /\ UNCHANGED <<tokens, sessions>>
    /\ Static

\* GET /api/health
HealthCheck ==
    /\ response' = [Resp("health", 200) EXCEPT !.detail = "healthy"]
    /\ DbUnchanged
    /\ UNCHANGED <<tokens, sessions>>
    /\ Static

\* a token handed out, presented as it is before its expiry
Bearer(t) == [header |-> "bearer", token |-> t, signed |-> TRUE, expired |-> FALSE]

\* registrations and profile updates of clients that hold a token: every
\* pairing of the two usernames and emails, every new username and email
NextProfile ==
    \/ \E u \in Usernames, e \in Emails : Register(u, e, "p1")
    \/ \E t \in tokens, u \in NewUsernames \cup {""}, e \in NewEmails \cup {""} :
           UpdateProfile(Bearer(t), u, e)

SpecProfile == Init /\ [][NextProfile]_vars

\* access with every kind of credentials: accounts that may rename
\* themselves to "u3", and one that may register under a first name given up
AccessAccounts == {<<"u1", "e1", "p1">>, <<"u1", "e2", "p2">>, <<"u2", "e2", "p1">>}

NextAccess ==
    \/ \E acc \in AccessAccounts : Register(acc[1], acc[2], acc[3])
    \/ \E u \in NewUsernames, p \in Passwords : Login(u, p)
    \/ \E cred \in Credentials(tokens) : UpdateProfile(cred, "u3", "")
    \/ \E cred \in Credentials(tokens) : GetCurrentUserInfo(cred)
    \/ \E cred \in Credentials(tokens) : GetTasks(cred)
    \/ HealthCheck

SpecAccess == Init /\ [][NextAccess]_vars

-----------------------------------------------------------------------------
(* Repeated submissions to one task: one account, the 20-point task with    *)
(* its expected answer and with another, one row more than MaxResults       *)

MaxAttemptRows == MaxResults + 1
AttemptsAccount == <<"u1", "e1", "p1">>
AttemptsSubmits ==
    { <<1, PyDict({<<"test_cases", "cases1">>})>>, <<1, PyDict({})>> }

NextAttempts ==
    \/ Register(AttemptsAccount[1], AttemptsAccount[2], AttemptsAccount[3])
    \/ \E t \in tokens, sub \in AttemptsSubmits, ts \in TimeSpents :
           SubmitTaskUpTo(MaxAttemptRows, t, sub[1], sub[2], ts)
    \/ \E t \in tokens : CheckAchievements(t)

SpecAttempts == Init /\ [][NextAttempts]_vars

-----------------------------------------------------------------------------
(* One account at play: each of the three seeded tasks with its expected    *)
(* answer and with another, a task id with no row, and the checks           *)

SoloAccount == <<"u1", "e1", "p1">>
SoloSubmits ==
    { <<1, PyDict({<<"test_cases", "cases1">>})>>, <<1, PyDict({})>>,
      <<2, PyDict({<<"test_cases", "cases2">>})>>, <<2, PyDict({})>>,
      <<3, PyDict({<<"expected_behavior", "behavior3">>})>>, <<3, PyDict({})>>,
      <<4, PyDict({})>> }

NextSolo ==
    \/ Register(SoloAccount[1], SoloAccount[2], SoloAccount[3])
    \/ \E t \in tokens, sub \in SoloSubmits, ts \in TimeSpents :
           SubmitTask(t, sub[1], sub[2], ts)
    \/ \E t \in tokens : CheckAchievements(t)

SpecSolo == Init /\ [][NextSolo]_vars

-----------------------------------------------------------------------------
(* The category quota: one account that passes and fails the functional     *)
(* task and passes the api task, up to one row more than the quota          *)

MaxQuotaRows == CategoryQuota + 1
QuotaAccount == <<"u1", "e1", "p1">>
QuotaSubmits ==
    { <<1, PyDict({<<"test_cases", "cases1">>})>>, <<1, PyDict({})>>,
      <<2, PyDict({<<"test_cases", "cases2">>})>> }
QuotaTimes == {31}

NextQuota ==
    \/ Register(QuotaAccount[1], QuotaAccount[2], QuotaAccount[3])
    \/ \E t \in tokens, sub \in QuotaSubmits, ts \in QuotaTimes :
           SubmitTaskUpTo(MaxQuotaRows, t, sub[1], sub[2], ts)
    \/ \E t \in tokens : CheckAchievements(t)

SpecQuota == Init /\ [][NextQuota]_vars

-----------------------------------------------------------------------------
(* The fast completion: one account, the 50-point task with its expected    *)
(* answer and with another, and a time_spent field that is left out or is   *)
(* one of TimeSpents                                                        *)

FastAccount == <<"u1", "e1", "p1">>
FastSubmits ==
    { <<3, PyDict({<<"expected_behavior", "behavior3">>})>>, <<3, PyDict({})>> }

TimeSpentFields ==
    {[given |-> FALSE, value |-> DefaultTimeSpent]}
        \cup {[given |-> TRUE, value |-> ts] : ts \in TimeSpents}

\* TaskSubmission.time_spent: Optional[int] = 0
TimeSpentOf(field) == IF field.given THEN field.value ELSE DefaultTimeSpent

NextFast ==
    \/ Register(FastAccount[1], FastAccount[2], FastAccount[3])
    \/ \E t \in tokens, sub \in FastSubmits, f \in TimeSpentFields :
           SubmitTask(t, sub[1], sub[2], TimeSpentOf(f))
    \/ \E t \in tokens : CheckAchievements(t)

SpecFast == Init /\ [][NextFast]_vars

-----------------------------------------------------------------------------
(* Two accounts that score side by side: the 50-point task with its         *)
(* expected answer and with another, and the checks                         *)

DuoSubmits ==
    { <<3, PyDict({<<"expected_behavior", "behavior3">>})>>, <<3, PyDict({})>> }

NextDuo ==
    \/ \E acc \in GameAccounts : Register(acc[1], acc[2], acc[3])
    \/ \E t \in tokens, sub \in DuoSubmits, ts \in TimeSpents :
           SubmitTask(t, sub[1], sub[2], ts)
    \/ \E t \in tokens : CheckAchievements(t)

SpecDuo == Init /\ [][NextDuo]_vars

-----------------------------------------------------------------------------
(* Checks against a catalog that init_db did not write: the achievements    *)
(* table has no row at all (as under create_all alone), its first row only, *)
(* or the eight seeded rows                                                 *)

Catalogs == { <<>>, SubSeq(SeedAchievements, 1, 1), SeedAchievements }
CatalogAccount == <<"u1", "e1", "p1">>

InitCatalog ==
    /\ users = <<>>
    /\ test_results = EmptyBag
    /\ user_achievements = EmptyBag
    /\ tasks = SeedTasks
    /\ achievements \in Catalogs
    /\ tokens = {}
    /\ sessions = [sl \in Slots |-> IdleSession]
    /\ response = Resp("none", 0)
    /\ probe = NoProbe

NextCatalog ==
    \/ Register(CatalogAccount[1], CatalogAccount[2], CatalogAccount[3])
    \/ \E t \in tokens, sub \in DuoSubmits, ts \in TimeSpents :
           SubmitTask(t, sub[1], sub[2], ts)
    \/ \E t \in tokens : CheckAchievements(t)

SpecCatalog == InitCatalog /\ [][NextCatalog]_vars

-----------------------------------------------------------------------------
(* calculate_level applied to pairs of experiences around the first level   *)
(* steps and around the cap                                                 *)

CapExperience == (LevelCap - 1) * XpPerLevel

LevelInputs ==
    (0 .. MaxLevelProbe)
        \cup ((CapExperience - MaxLevelProbe) .. (CapExperience + MaxLevelProbe))

InitLevel ==
    /\ users = <<>>
    /\ test_results = EmptyBag
    /\ user_achievements = EmptyBag
    /\ tasks = SeedTasks
    /\ achievements = SeedAchievements
    /\ tokens = {}
    /\ sessions = [sl \in Slots |-> IdleSession]
    /\ response = Resp("none", 0)
    /\ probe \in {[fn |-> "calculate_level", done |-> FALSE, a |-> a, b |-> b,
                   level_a |-> 0, level_b |-> 0] : a \in LevelInputs, b \in LevelInputs}

ApplyLevel ==
    /\ probe.fn = "calculate_level"
    /\ ~probe.done
    /\ probe' = [probe EXCEPT !.done = TRUE,
                              !.level_a = calculate_level(probe.a),
                              !.level_b = calculate_level(probe.b)]
    /\ UNCHANGED <<users, test_results, user_achievements, tasks, achievements,
                   tokens, sessions, response>>

NextLevel == ApplyLevel

SpecLevel == InitLevel /\ [][NextLevel]_vars

-----------------------------------------------------------------------------
(* evaluate_task applied to stored texts, answers and point values.  Each   *)
(* stored text is listed with what it denotes.                              *)

EvalTexts ==
    { [text |-> <<>>, wellformed |-> TRUE, denotes |-> PyDict({})],
      [text |-> <<"{", "}">>, wellformed |-> TRUE, denotes |-> PyDict({})],
      [text |-> <<"{", "test_cases", ":", "cases1", "}">>, wellformed |-> TRUE,
       denotes |-> PyDict({<<"test_cases", "cases1">>})],
      [text |-> <<"{", "test_cases", ":", "cases1", ",",
                  "expected_behavior", ":", "behavior3", "}">>, wellformed |-> TRUE,
       denotes |-> PyDict({<<"test_cases", "cases1">>,
                           <<"expected_behavior", "behavior3">>})],
      [text |-> <<"{", "expected_behavior", ":", "behavior3", ",",
                  "test_cases", ":", "cases1", "}">>, wellformed |-> TRUE,
       denotes |-> PyDict({<<"test_cases", "cases1">>,
                           <<"expected_behavior", "behavior3">>})],
      [text |-> <<"{", "test_cases", ":", "cases1", ",",
                  "test_cases", ":", "cases2", "}">>, wellformed |-> TRUE,
       denotes |-> PyDict({<<"test_cases", "cases2">>})],
      [text |-> <<"cases1">>, wellformed |-> TRUE, denotes |-> PyScalar("cases1")],
      [text |-> <<"{">>, wellformed |-> FALSE, denotes |-> PyDict({})],
      [text |-> <<"{", "test_cases", ":", "cases1">>, wellformed |-> FALSE,
       denotes |-> PyDict({})],
      [text |-> <<"{", "test_cases", ":", "cases1", ",", "}">>, wellformed |-> FALSE,
       denotes |-> PyDict({})],
      [text |-> <<"{", "test_cases", "cases1", "}">>, wellformed |-> FALSE,
       denotes |-> PyDict({})] }

EvalAnswers ==
    { PyDict({}),
      PyDict({<<"test_cases", "cases1">>}),
      PyDict({<<"test_cases", "cases2">>}),
      PyDict({<<"expected_behavior", "behavior3">>}),
      PyDict({<<"test_cases", "cases1">>, <<"expected_behavior", "behavior3">>}),
      PyScalar("cases1") }

InitEval ==
    /\ users = <<>>
    /\ test_results = EmptyBag
    /\ user_achievements = EmptyBag
    /\ tasks = SeedTasks
    /\ achievements = SeedAchievements
    /\ tokens = {}
    /\ sessions = [sl \in Slots |-> IdleSession]
    /\ response = Resp("none", 0)
    /\ probe \in {[fn |-> "evaluate_task", done |-> FALSE, stored |-> t,
                   points |-> pts, answer |-> a, score |-> 0, feedback |-> ""] :
                  t \in EvalTexts, pts \in 0 .. MaxPoints, a \in EvalAnswers}

ApplyEvaluate ==
    /\ probe.fn = "evaluate_task"
    /\ ~probe.done
    /\ LET ev == evaluate_task([category |-> "functional", points |-> probe.points,
                                expected_result |-> probe.stored.text], probe.answer)
       IN  probe' = [probe EXCEPT !.done = TRUE, !.score = ev.score,
                                  !.feedback = ev.feedback]
    /\ UNCHANGED <<users, test_results, user_achievements, tasks, achievements,
                   tokens, sessions, response>>

NextEval == ApplyEvaluate

SpecEval == InitEval /\ [][NextEval]_vars

-----------------------------------------------------------------------------
(* Submissions to a task table that init_db did not write: test_tasks is    *)
(* not empty at startup, so init_db leaves it alone; its one row has any of *)
(* the stored texts, well-formed or not, and any points from 0 to MaxPoints *)

StoredAccount == <<"u1", "e1", "p1">>

InitStored ==
    /\ users = <<>>
    /\ test_results = EmptyBag
    /\ user_achievements = EmptyBag
    /\ tasks \in {<<[category |-> "functional", points |-> pts,
                     expected_result |-> t.text]>> :
                  t \in EvalTexts, pts \in 0 .. MaxPoints}
    /\ achievements = SeedAchievements
    /\ tokens = {}
    /\ sessions = [sl \in Slots |-> IdleSession]
    /\ response = Resp("none", 0)
    /\ probe = NoProbe

NextStored ==
    \/ Register(StoredAccount[1], StoredAccount[2], StoredAccount[3])
    \/ \E t \in tokens, a \in EvalAnswers, ts \in TimeSpents :
           SubmitTask(t, 1, a, ts)

SpecStored == InitStored /\ [][NextStored]_vars

-----------------------------------------------------------------------------
(* Levelling up to the cap.  test_tasks is not empty at startup, so init_db *)
(* leaves it alone: next to the three seeded rows it holds one task worth   *)
(* half the experience of level 100, all of it, or one level more.          *)

SummitPoints == {CapExperience \div 2, CapExperience, CapExperience + XpPerLevel}

SummitAccount == <<"u1", "e1", "p1">>

\* the 50-point task and the large one, each with its expected answer and
\* with another
SummitSubmits ==
    { <<3, PyDict({<<"expected_behavior", "behavior3">>})>>, <<3, PyDict({})>>,
      <<4, PyDict({<<"test_cases", "cases1">>})>>, <<4, PyDict({})>> }

InitSummit ==
    /\ users = <<>>
    /\ test_results = EmptyBag
    /\ user_achievements = EmptyBag
    /\ tasks \in {Append(SeedTasks,
                         [category |-> "functional", points |-> pts,
                          expected_result |-> <<"{", "test_cases", ":", "cases1", "}">>]) :
                  pts \in SummitPoints}
    /\ achievements = SeedAchievements
    /\ tokens = {}
    /\ sessions = [sl \in Slots |-> IdleSession]
    /\ response = Resp("none", 0)
    /\ probe = NoProbe

NextSummit ==
    \/ Register(SummitAccount[1], SummitAccount[2], SummitAccount[3])
    \/ \E t \in tokens, sub \in SummitSubmits, ts \in TimeSpents :
           SubmitTask(t, sub[1], sub[2], ts)
    \/ \E t \in tokens : CheckAchievements(t)
    \/ \E t \in tokens : UpdateProfile(Bearer(t), "u3", "")

SpecSummit == InitSummit /\ [][NextSummit]_vars

-----------------------------------------------------------------------------
(* Properties *)

HasUsername(name) == \E i \in DOMAIN users : users[i].username = name

\* sum of the scores of user uid's passed rows
RECURSIVE PassedScoreOf(_, _)
PassedScoreOf(uid, rows) ==
    IF rows = {} THEN 0
    ELSE LET r == CHOOSE x \in rows : TRUE
         IN  (IF r.user_id = uid /\ r.passed THEN test_results[r] * r.score ELSE 0)
                 + PassedScoreOf(uid, rows \ {r})

PassedScoreSum(uid) == PassedScoreOf(uid, DOMAIN test_results)

\* sum of the points of user uid's award rows: every row, or every achievement once
RECURSIVE AwardPointsOf(_, _, _)
AwardPointsOf(uid, rows, everyRow) ==
    IF rows = {} THEN 0
    ELSE LET r == CHOOSE x \in rows : TRUE
             n == IF everyRow THEN user_achievements[r] ELSE 1
         IN  (IF r.user_id = uid /\ r.achievement_id \in DOMAIN achievements
              THEN n * achievements[r.achievement_id] ELSE 0)
                 + AwardPointsOf(uid, rows \ {r}, everyRow)

AwardPointsPerRow(uid) == AwardPointsOf(uid, DOMAIN user_achievements, TRUE)
AwardPointsOnce(uid) == AwardPointsOf(uid, DOMAIN user_achievements, FALSE)

\* C1: a registration whose username already belongs to a stored user is
\* answered 400, adds no user row and changes no user row.
C1_RegisterDuplicateUsername ==
    [][\A u \in Usernames, e \in Emails, p \in Passwords :
          (Register(u, e, p) /\ HasUsername(u))
              => (response'.op = "register" /\ response'.status = 400
                  /\ users' = users)]_vars

C1_Witness ==
    /\ response.op = "register"
    /\ response.status = 400
    /\ response.detail = "username exists"
    /\ Len(users) >= 1

\* C2: a login whose username has no user row, or whose password does not
\* match the stored hash of that user, is answered 401 and issues no token.
C2_LoginRejected ==
    [][\A u \in Usernames, p \in Passwords :
          (Login(u, p)
             /\ \A i \in DOMAIN users :
                   users[i].username = u
                       => users[i].password_hash # get_password_hash(p))
              => (response'.op = "login" /\ response'.status = 401
                  /\ response'.access_token = NoToken /\ tokens' = tokens)]_vars

\* every username is registered, so the rejected login named a stored user
\* and gave a wrong password
C2_Witness ==
    /\ response.op = "login"
    /\ response.status = 401
    /\ \A u \in Usernames : HasUsername(u)

\* C3: for a well-formed stored expected result, evaluate_task scores the
\* task's points when the answer equals what the stored text denotes, and
\* points // 2 for every other answer.
C3_EvaluateScore ==
    (probe.fn = "evaluate_task" /\ probe.done /\ probe.stored.wellformed)
        => probe.score = IF probe.answer = probe.stored.denotes
                         THEN probe.points
                         ELSE probe.points \div 2

C3_Witness ==
    /\ probe.fn = "evaluate_task"
    /\ probe.done
    /\ probe.stored.wellformed
    /\ probe.answer # probe.stored.denotes
    /\ probe.points = 7
    /\ probe.score = 3

\* C4: with requests served one at a time, no two user_achievements rows
\* have the same (user_id, achievement_id).
C4_NoDuplicateAward ==
    \A row \in DOMAIN user_achievements : user_achievements[row] = 1

\* the last check found nothing new, and every user holds an award
C4_Witness ==
    /\ response.op = "check"
    /\ response.status = 200
    /\ response.new_achievements = <<>>
    /\ Len(users) >= 1
    /\ \A i \in DOMAIN users :
          \E row \in DOMAIN user_achievements : row.user_id = i

\* C5: every user's stored level is min(experience // 100 + 1, 100) of the
\* stored experience.
C5_LevelFormula ==
    \A i \in DOMAIN users :
        users[i].level = Min(users[i].experience \div 100 + 1, 100)

\* C6 as stated: when two checks of one user have both inserted the row of
\* an achievement, its points are counted once per row.
C6_PointsPerRow ==
    \A i \in DOMAIN users :
        (\E row \in DOMAIN user_achievements :
            row.user_id = i /\ user_achievements[row] >= 2)
            => /\ users[i].total_score = PassedScoreSum(i) + AwardPointsPerRow(i)
               /\ users[i].experience = PassedScoreSum(i) + AwardPointsPerRow(i)

\* C6 as amended: overlapping requests never count an achievement's points
\* more than once, also when they insert its row twice.
C6_PointsAddedOnce ==
    \A i \in DOMAIN users :
        /\ users[i].experience <= PassedScoreSum(i) + AwardPointsOnce(i)
        /\ users[i].total_score <= PassedScoreSum(i) + AwardPointsOnce(i)

\* two rows for one (user, achievement)
C6_Witness ==
    \E row \in DOMAIN user_achievements : user_achievements[row] >= 2

\* C7: a passing submission commits the experience and total_score it read
\* at its start plus its own score, whatever was committed in between.
C7_SubmitWritesReadPlusScore ==
    [][\A sl \in Slots :
          (/\ sessions[sl].kind = "submit"
           /\ sessions[sl].passed
           /\ sessions'[sl].kind = "idle"
           /\ response'.op = "submit"
           /\ response'.status = 200)
              => LET uid == sessions[sl].user_id
                 IN  /\ users'[uid].experience
                            = sessions[sl].loaded.experience + sessions[sl].score
                     /\ users'[uid].total_score
                            = sessions[sl].loaded.total_score + sessions[sl].score]_vars

\* two passed rows are stored and the user's experience and total_score are
\* less than their scores together
C7_Witness ==
    \E i \in DOMAIN users :
        /\ BagCardinality(test_results) = 2
        /\ \A r \in DOMAIN test_results : r.user_id = i /\ r.passed
        /\ users[i].experience < PassedScoreSum(i)
        /\ users[i].total_score < PassedScoreSum(i)

\* C8 as stated: a check interrupted in its loop after it has awarded
\* something leaves at least one of those awards stored.
C8_InterruptedCheckPersistsSubset ==
    [][\A sl \in Slots :
          (/\ sessions[sl].kind = "check"
           /\ sessions[sl].rule <= NumRules
           /\ Len(sessions[sl].new_awards) > 0
           /\ sessions'[sl].kind = "idle"
           /\ response'.op = "check"
           /\ response'.status = 500)
              => \E i \in DOMAIN sessions[sl].new_awards :
                    BagIn([user_id |-> sessions[sl].user_id,
                           achievement_id |-> sessions[sl].new_awards[i]],
                          user_achievements')]_vars

\* C8 as amended: neither a pass of the loop of a check nor its interruption
\* changes a stored user or award row; a check writes at its commit only.
C8_InterruptedCheckPersistsNothing ==
    [][\A sl \in Slots :
          (/\ sessions[sl].kind = "check"
           /\ \/ sessions'[sl].rule = sessions[sl].rule + 1
              \/ /\ sessions'[sl].kind = "idle"
                 /\ response'.op = "check"
                 /\ response'.status = 500)
              => (users' = users /\ user_achievements' = user_achievements)]_vars

\* a check is in its loop, has awarded something and none of it is stored
C8_Witness ==
    \E sl \in Slots :
        /\ sessions[sl].kind = "check"
        /\ sessions[sl].rule > 1
        /\ sessions[sl].rule <= NumRules
        /\ Len(sessions[sl].new_awards) > 0
        /\ \A i \in DOMAIN sessions[sl].new_awards :
              ~BagIn([user_id |-> sessions[sl].user_id,
                      achievement_id |-> sessions[sl].new_awards[i]],
                     user_achievements)
        /\ users[sessions[sl].user_id].experience = sessions[sl].loaded.experience

\* C9: every stored test result has passed = (score >= 0.7 * max_score) and
\* max_score = the points of its task.
C9_PassedFlag ==
    \A r \in DOMAIN test_results :
        /\ r.passed = (10 * r.score >= 7 * r.max_score)
        /\ r.task_id \in DOMAIN tasks
        /\ r.max_score = tasks[r.task_id].points

C9_Witness ==
    \E r1 \in DOMAIN test_results, r2 \in DOMAIN test_results :
        r1.passed /\ ~r2.passed

\* C10: calculate_level is monotonic non-decreasing, is 100 from experience
\* 9900 on and is below 100 for every experience from 0 to 9899.
C10_LevelMonotoneSaturating ==
    (probe.fn = "calculate_level" /\ probe.done)
        => /\ probe.a <= probe.b => probe.level_a <= probe.level_b
           /\ probe.a >= 9900 => probe.level_a = 100
           /\ probe.a < 9900 => probe.level_a < 100

C10_Witness ==
    /\ probe.fn = "calculate_level"
    /\ probe.done
    /\ probe.a = 9899 /\ probe.level_a = 99
    /\ probe.b = 9900 /\ probe.level_b = 100

\* C11: after any sequence of register and profile-update requests, accepted
\* or rejected, no two user rows have the same username and no two have the
\* same email.
C11_UniqueUsernameEmail ==
    \A i \in DOMAIN users, j \in DOMAIN users :
        i # j => /\ users[i].username # users[j].username
                 /\ users[i].email # users[j].email

\* two users, one of them renamed and readdressed, and the last profile
\* update was rejected
C11_Witness ==
    /\ Len(users) = 2
    /\ \E i \in DOMAIN users :
          users[i].username = "u3" /\ users[i].email = "e3"
    /\ response.op = "profile"
    /\ response.status = 400

\* sum of the catalog points of a set of achievement ids
RECURSIVE PointsOfIds(_)
PointsOfIds(ids) ==
    IF ids = {} THEN 0
    ELSE LET k == CHOOSE x \in ids : TRUE
         IN  (IF k \in DOMAIN achievements THEN achievements[k] ELSE 0)
                 + PointsOfIds(ids \ {k})

AwardRow(uid, k) == [user_id |-> uid, achievement_id |-> k]

\* C12: a check that inserts award rows for achievements the user did not
\* hold adds the points of exactly those achievements to the user's
\* experience and to the user's total_score.
C12_AwardAddsPoints ==
    [][\A t \in tokens, uid \in DOMAIN users :
          (CheckAchievements(t) /\ users[uid].username = t.sub)
              => LET inserted == {k \in 1 .. NumRules :
                                    /\ BagIn(AwardRow(uid, k), user_achievements')
                                    /\ ~BagIn(AwardRow(uid, k), user_achievements)}
                 IN  /\ users'[uid].experience
                            = users[uid].experience + PointsOfIds(inserted)
                     /\ users'[uid].total_score
                            = users[uid].total_score + PointsOfIds(inserted)]_vars

\* the last check awarded the first pass, the fast completion and the
\* perfect score, and the user has their 85 points on top of the 50 scored
C12_Witness ==
    /\ response.op = "check"
    /\ response.status = 200
    /\ response.new_achievements = <<1, 6, 7>>
    /\ \E uid \in DOMAIN users :
          /\ \A k \in {1, 6, 7} : BagIn(AwardRow(uid, k), user_achievements)
          /\ users[uid].experience = 135
          /\ users[uid].total_score = 135

\* credentials that must not be accepted: none, a wrong signature, an
\* expired token, no subject, a subject that is no stored username
BadCredentials(cred) ==
    \/ cred.header = "none"
    \/ ~cred.signed
    \/ cred.expired
    \/ cred.token.sub = ""
    \/ ~HasUsername(cred.token.sub)

AccountOf(us, i, u, p) ==
    /\ i \in DOMAIN us
    /\ us[i].username = u
    /\ us[i].password_hash = get_password_hash(p)

\* C14: a successful registration of (username, email, password) gives an
\* account of that username and password; the account stays one as long as
\* its username is not changed; a login with the username and password of
\* an account is answered 200 with an access_token of token_type "bearer".
C14_LoginAfterRegister ==
    [][\A u \in NewUsernames, p \in Passwords :
          /\ \A e \in Emails :
                (Register(u, e, p) /\ response'.status = 200)
                    => \E i \in DOMAIN users' : AccountOf(users', i, u, p)
          /\ \A i \in DOMAIN users :
                (AccountOf(users, i, u, p) /\ users'[i].username = u)
                    => AccountOf(users', i, u, p)
          /\ (Login(u, p) /\ \E i \in DOMAIN users : AccountOf(users, i, u, p))
                => /\ response'.op = "login"
                   /\ response'.status = 200
                   /\ response'.token_type = "bearer"
                   /\ response'.access_token = create_access_token(u)]_vars

\* a login under the name "u1" succeeded for the second account, registered
\* after the first account gave that name up
C14_Witness ==
    /\ response.op = "login"
    /\ response.status = 200
    /\ response.token_type = "bearer"
    /\ response.access_token = create_access_token("u1")
    /\ Len(users) = 2
    /\ users[1].username = "u3"
    /\ users[2].username = "u1"

\* C15: GET /api/auth/me with a token that was handed to user U is answered
\* 200 with U's own id, username and email, whatever other users there are.
C15_MeReturnsOwnUser ==
    [][\A t \in tokens :
          GetCurrentUserInfo(Bearer(t))
              => /\ response'.status = 200
                 /\ response'.user_id = t.holder
                 /\ response'.username = users[t.holder].username
                 /\ response'.email = users[t.holder].email]_vars

\* C16: GET /api/health can be answered in every reachable state, whoever
\* asks; its answer is 200 with status "healthy", and it changes no stored
\* state.
C16_HealthAlwaysHealthy ==
    /\ [](ENABLED HealthCheck)
    /\ [][response'.op = "health"
             => /\ response'.status = 200
                /\ response'.detail = "healthy"
                /\ users' = users
                /\ test_results' = test_results
                /\ user_achievements' = user_achievements
                /\ tokens' = tokens]_vars

\* healthy with no user at all
C16_Witness ==
    /\ response.op = "health"
    /\ response.detail = "healthy"
    /\ users = <<>>
    /\ tokens = {}

\* the stored rows of user uid for task task_id
RowsOnTask(uid, task_id) ==
    {r \in DOMAIN test_results : r.user_id = uid /\ r.task_id = task_id}

\* C17: when a user's third submission to a task has just passed, the next
\* check awards achievement 8 to that user.
C17_ThirdAttemptAwarded ==
    [][\A t \in tokens, uid \in DOMAIN users :
          (/\ users[uid].username = t.sub
           /\ response.op = "submit"
           /\ response.status = 200
           /\ response.passed
           /\ \E task_id \in DOMAIN tasks :
                 /\ CountRows(test_results, RowsOnTask(uid, task_id)) = 3
                 /\ BagCardinality(test_results) = 3
           /\ CheckAchievements(t))
              => BagIn(AwardRow(uid, 8), user_achievements')]_vars

\* user uid holds every achievement whose condition the rows of results meet
NothingToAward(uid, results, awards) ==
    \A k \in 1 .. NumRules :
        RuleCondition(k, uid, results, tasks) => BagIn(AwardRow(uid, k), awards)

\* C18: a check leaves its user with nothing more to award, and a check of
\* a user with nothing more to award returns an empty new_achievements and
\* changes no user row and no award row; so the second of two checks in a
\* row changes nothing.
C18_CheckIdempotent ==
    [][\A t \in tokens, uid \in DOMAIN users :
          (users[uid].username = t.sub /\ CheckAchievements(t))
              => /\ NothingToAward(uid, test_results', user_achievements')
                 /\ NothingToAward(uid, test_results, user_achievements)
                       => /\ response'.status = 200
                          /\ response'.new_achievements = <<>>
                          /\ users' = users
                          /\ user_achievements' = user_achievements]_vars

\* the last check found nothing new for a user who holds the first pass,
\* the fast completion and the perfect score with their 85 points
C18_Witness ==
    /\ response.op = "check"
    /\ response.status = 200
    /\ response.new_achievements = <<>>
    /\ Len(users) = 1
    /\ \A k \in {1, 6, 7} : BagIn(AwardRow(1, k), user_achievements)
    /\ users[1].experience = 135
    /\ users[1].total_score = 135

\* C19: a profile update answered 400 leaves every user row as it was, also
\* when it asked for a free new username together with a taken email.
C19_RejectedProfileUnchanged ==
    [][(response'.op = "profile" /\ response'.status = 400)
          => users' = users]_vars

\* the last profile update asked for a username nobody has and for another
\* user's email, and was rejected for the email
C19_Witness ==
    /\ response.op = "profile"
    /\ response.status = 400
    /\ response.detail = "email exists"
    /\ response.req_username # ""
    /\ ~HasUsername(response.req_username)
    /\ \E i \in DOMAIN users : users[i].email = response.req_email

\* the stored text is one of those that cannot be decoded
Malformed(text) == \E t \in EvalTexts : t.text = text /\ ~t.wellformed

\* C20: for a task whose stored expected result cannot be decoded,
\* evaluate_task gives score 0 with an error as feedback; the submission is
\* answered 200 and stored as one more row with score 0; if the task has
\* positive points the row is not passed and no user row changes.
C20_MalformedStoredResult ==
    [][\A t \in tokens, a \in EvalAnswers, ts \in TimeSpents, uid \in DOMAIN users :
          (/\ users[uid].username = t.sub
           /\ 1 \in DOMAIN tasks
           /\ Malformed(tasks[1].expected_result)
           /\ SubmitTask(t, 1, a, ts))
              => /\ evaluate_task(tasks[1], a) = [score |-> 0, feedback |-> "error"]
                 /\ response'.status = 200
                 /\ response'.score = 0
                 /\ BagCardinality(test_results') = BagCardinality(test_results) + 1
                 /\ \E r \in DOMAIN test_results' :
                       /\ CopiesIn(r, test_results') = CopiesIn(r, test_results) + 1
                       /\ r.user_id = uid
                       /\ r.task_id = 1
                       /\ r.score = 0
                       /\ r.time_spent = ts
                       /\ tasks[1].points > 0 => ~r.passed
                 /\ tasks[1].points > 0 => users' = users]_vars

\* two submissions to a 7-point task with a malformed stored text are
\* stored with score 0, not passed, and the user has gained nothing
C20_Witness ==
    /\ Len(tasks) = 1
    /\ Malformed(tasks[1].expected_result)
    /\ tasks[1].points = 7
    /\ response.op = "submit"
    /\ response.status = 200
    /\ BagCardinality(test_results) = 2
    /\ \A r \in DOMAIN test_results : r.score = 0 /\ r.max_score = 7 /\ ~r.passed
    /\ Len(users) = 1
    /\ users[1].experience = 0
    /\ users[1].total_score = 0
    /\ users[1].level = 1

\* C21: a submission for a task id with no task row is answered 404, and a
\* submission answered 404 writes no test result and changes no user row.
C21_MissingTask404 ==
    [][/\ \A t \in tokens, sub \in SoloSubmits, ts \in TimeSpents :
             (/\ HasUsername(t.sub)
              /\ sub[1] \notin DOMAIN tasks
              /\ SubmitTask(t, sub[1], sub[2], ts))
                 => (response'.op = "submit" /\ response'.status = 404)
       /\ (response'.op = "submit" /\ response'.status = 404)
             => (test_results' = test_results /\ users' = users)]_vars

\* a 404 for a user who has a passed result and its experience
C21_Witness ==
    /\ response.op = "submit"
    /\ response.status = 404
    /\ Len(users) = 1
    /\ users[1].experience > 0
    /\ BagCardinality(test_results) >= 1
    /\ \A r \in DOMAIN test_results : r.task_id \in DOMAIN tasks

\* the number of stored rows among rows, each counted as often as stored
RECURSIVE StoredCount(_)
StoredCount(rows) ==
    IF rows = {} THEN 0
    ELSE LET r == CHOOSE x \in rows : TRUE
         IN  test_results[r] + StoredCount(rows \ {r})

\* user uid's passed results on tasks of category cat
PassedInCategory(uid, cat) ==
    StoredCount({r \in DOMAIN test_results :
                    /\ r.user_id = uid
                    /\ r.passed
                    /\ r.task_id \in DOMAIN tasks
                    /\ tasks[r.task_id].category = cat})

CategoryAchievements ==
    { <<2, "functional">>, <<3, "ui">>, <<4, "api">>, <<5, "security">> }

\* C22: a check inserts the award row of a category achievement exactly when
\* the user does not hold it and has 5 or more passed results on tasks of
\* that category.
C22_CategoryQuota ==
    [][\A t \in tokens, uid \in DOMAIN users, ca \in CategoryAchievements :
          (users[uid].username = t.sub /\ CheckAchievements(t))
              => ((CopiesIn(AwardRow(uid, ca[1]), user_achievements')
                      = CopiesIn(AwardRow(uid, ca[1]), user_achievements) + 1)
                  <=> (/\ ~BagIn(AwardRow(uid, ca[1]), user_achievements)
                       /\ PassedInCategory(uid, ca[2]) >= 5))
                 /\ CopiesIn(AwardRow(uid, ca[1]), user_achievements')
                       >= CopiesIn(AwardRow(uid, ca[1]), user_achievements)]_vars

\* the last check awarded the functional achievement on exactly 5 passed
\* functional results, next to a failed one
C22_Witness ==
    /\ response.op = "check"
    /\ \E i \in DOMAIN response.new_achievements : response.new_achievements[i] = 2
    /\ PassedInCategory(1, "functional") = 5
    /\ BagCardinality(test_results) = 6
    /\ ~BagIn(AwardRow(1, 4), user_achievements)

\* user uid has a passed result with time_spent of 30 or less
HasFastPass(uid) ==
    \E r \in DOMAIN test_results :
        r.user_id = uid /\ r.passed /\ r.time_spent <= 30

Qualifies(uid, k) ==
    LET passed == {r \in DOMAIN test_results : r.user_id = uid /\ r.passed}
    IN  CASE k = 1 -> passed # {}
          [] k = 2 -> PassedInCategory(uid, "functional") >= 5
          [] k = 3 -> PassedInCategory(uid, "ui") >= 5
          [] k = 4 -> PassedInCategory(uid, "api") >= 5
          [] k = 5 -> PassedInCategory(uid, "security") >= 5
          [] k = 6 -> \E r \in passed : r.time_spent <= 30
          [] k = 7 -> \E r \in passed : r.score = r.max_score
          [] OTHER -> \E r \in passed : r.attempts = 3

\* C24: new_achievements of a check lists, in ascending order of id, exactly
\* the rules whose own condition holds on the stored results and which the
\* user does not hold; no rule depends on what another rule did in the call.
C24_OrderedIndependentRules ==
    [][\A t \in tokens, uid \in DOMAIN users :
          (users[uid].username = t.sub /\ CheckAchievements(t))
              => LET new == response'.new_achievements
                 IN  /\ \A i \in DOMAIN new, j \in DOMAIN new :
                           i < j => new[i] < new[j]
                     /\ {new[i] : i \in DOMAIN new}
                           = {k \in 1 .. 8 :
                                 /\ Qualifies(uid, k)
                                 /\ ~BagIn(AwardRow(uid, k), user_achievements)}]_vars

\* a check that awarded the fast completion alone, after an earlier check
\* had awarded the first pass and the perfect score
C24_Witness ==
    /\ response.op = "check"
    /\ response.new_achievements = <<6>>
    /\ \A k \in {1, 6, 7} : BagIn(AwardRow(1, k), user_achievements)

\* C25: a token handed to user U resolves to U's own row or to no row (401),
\* never to the row of another user.
C25_TokenResolvesToOwner ==
    \A t \in tokens :
        get_current_user(t, users) \in {0, t.holder}

\* C26: with requests served one at a time, each user's total_score is the
\* sum of the scores of the user's passed results plus the sum of the
\* points of the achievements the user holds an award row for.
C26_TotalScoreIsSum ==
    \A i \in DOMAIN users :
        users[i].total_score = PassedScoreSum(i) + AwardPointsOnce(i)

\* one user with a passed result and three awards, the other with a failed
\* result and nothing
C26_Witness ==
    /\ Len(users) = 2
    /\ users[1].total_score = 50 + 10 + 25 + 30
    /\ users[2].total_score = 0
    /\ \E r \in DOMAIN test_results : r.user_id = 2 /\ ~r.passed

MatchesStored(text, answer) ==
    \E t \in EvalTexts : t.text = text /\ t.wellformed /\ t.denotes = answer

\* C28: for a task with positive points, the row that submit_task writes is
\* passed exactly when the answer equals the stored expected result; a
\* passed row has score = max_score, and a submission whose answer differs
\* changes no user row.
C28_PassedIffMatch ==
    [][\A t \in tokens, a \in EvalAnswers, ts \in TimeSpents :
          (/\ HasUsername(t.sub)
           /\ 1 \in DOMAIN tasks
           /\ tasks[1].points > 0
           /\ SubmitTask(t, 1, a, ts))
              => /\ response'.status = 200
                 /\ response'.passed = MatchesStored(tasks[1].expected_result, a)
                 /\ \A r \in DOMAIN test_results' :
                       CopiesIn(r, test_results') > CopiesIn(r, test_results)
                           => /\ r.passed = MatchesStored(tasks[1].expected_result, a)
                              /\ r.passed => r.score = r.max_score
                              /\ r.max_score = tasks[1].points
                 /\ ~MatchesStored(tasks[1].expected_result, a) => users' = users
                 /\ BagCardinality(test_results') = BagCardinality(test_results) + 1]_vars

\* on a 7-point task with a well-formed stored text, a half-points row (3 of
\* 7, not passed) next to a full-points row (passed), and the user has the 7
C28_Witness ==
    /\ Len(tasks) = 1
    /\ tasks[1].points = 7
    /\ \E t \in EvalTexts : t.text = tasks[1].expected_result /\ t.wellformed
    /\ \E r \in DOMAIN test_results : r.score = 3 /\ ~r.passed
    /\ \E r \in DOMAIN test_results : r.score = 7 /\ r.passed
    /\ Len(users) = 1
    /\ users[1].experience = 7

C30_ExperienceIsTotalScore ==
    \A i \in DOMAIN users : users[i].experience = users[i].total_score

\* a user whose experience and total_score were raised by a passed 50-point
\* submission and by the awards for it (10 + 25 + 30)
C30_Witness ==
    \E i \in DOMAIN users :
        /\ users[i].experience = 50 + 10 + 25 + 30
        /\ users[i].total_score = users[i].experience
        /\ \E r \in DOMAIN test_results : r.user_id = i /\ r.passed
        /\ \E k \in {1, 6, 7} : CopiesIn(AwardRow(i, k), user_achievements) > 0

=============================================================================
